---- MODULE Spec2Model ----
(***************************************************************************)
(* Model of the Hue Entertainment streaming service of emulated_hue:       *)
(*   - Config.start_entertainment / stop_entertainment (controllers/       *)
(*     config.py), which own the single EntertainmentAPI object;           *)
(*   - EntertainmentAPI (controllers/entertainment.py): the background     *)
(*     task async_run that spawns the OpenSSL DTLS endpoint, reads its     *)
(*     stdout, splits the byte stream on the "HueStream" marker and hands   *)
(*     every packet to __process_packet; and stop().                       *)
(*                                                                         *)
(* The asyncio event loop runs one task step at a time: every action below *)
(* is the code between two suspension points (await) of one task, or one   *)
(* synchronous call made by another handler.                               *)
(***************************************************************************)
EXTENDS Integers, Sequences, FiniteSets, TLC

\* ---------------------------------------------------------------------
\*  Bounds of the model
\* ---------------------------------------------------------------------
MaxSessions == 2          \* EntertainmentAPI objects created in one run
OversizedLen == 520       \* bytes that follow the header of FrameOversized
MaxTasks == 4             \* tasks created by add_scheduler in one run
MaxSaves == 2             \* tasks created by create_save_task in one run
NumValues == 2            \* contents a stored item can have
MaxTicks == 8             \* ticks of the clock in one run

\* ---------------------------------------------------------------------
\*  Program constants (entertainment.py, EntertainmentAPI.__init__)
\* ---------------------------------------------------------------------
_pkt_header_begin_size == 9
_pkt_header_protocol_size == 7
_pkt_header_uuid_size == 36
_pkt_light_data_size == 9 * 20
\* (mutant) the light data is left out of the sum
_max_pkt_size_without_light_data ==
    _pkt_header_begin_size + _pkt_header_protocol_size + _pkt_header_uuid_size

_max_pkt_size ==
    _pkt_header_begin_size + _pkt_header_protocol_size
        + _pkt_header_uuid_size + _pkt_light_data_size

\* b"HueStream"
HueStream == <<72, 117, 101, 83, 116, 114, 101, 97, 109>>

None == 0

\* ---------------------------------------------------------------------
\*  Inputs: the light registry, the groups a session is started for and
\*  the byte streams the endpoint's client sends
\* ---------------------------------------------------------------------
\* ids of the lights in the bridge config ("lights" storage key)
Lights == {1, 2, 258}

\* len(group_details["lights"]) of the groups start_entertainment is called with
GroupSizes == {1}

\* the same for the runs that exercise the splitting of the buffer: the
\* first read asks for 16 + 9 * 3 = 43 bytes with a group of three
ReaderGroupSizes == {1, 3}

\* a version-1 header: version, 4 reserved/sequence bytes, color space, reserved
HeaderV1(color_space) == <<1, 0, 0, 0, 0, color_space, 0>>

\* a version-2 header: the same with version 2, followed by the 36 bytes of
\* the entertainment configuration id
HeaderV2(color_space) ==
    <<2, 0, 0, 0, 0, color_space, 0>> \o [i \in 1.._pkt_header_uuid_size |-> 48]

\* one 9-byte channel record: type, 16-bit id (big endian), 6 colour bytes
Record(id, b3, b4, b5, b6, b7, b8) ==
    <<0, id \div 256, id % 256, b3, b4, b5, b6, b7, b8>>

Frame0 == HueStream \o HeaderV1(0)
Frame1 == HueStream \o HeaderV1(0) \o Record(1, 255, 0, 0, 0, 0, 128)
FrameUnknown == HueStream \o HeaderV1(0) \o Record(7, 1, 2, 3, 4, 5, 6)

\* frames of several channel records: two known lights; a light that is
\* not in the config between two known ones; a record followed by a
\* fragment of 4 bytes
FrameTwo ==
    HueStream \o HeaderV1(0) \o Record(1, 10, 0, 20, 0, 30, 0)
        \o Record(2, 40, 0, 50, 0, 60, 0)
FrameMixed ==
    HueStream \o HeaderV1(0) \o Record(1, 10, 0, 20, 0, 30, 0)
        \o Record(7, 1, 2, 3, 4, 5, 6) \o Record(2, 40, 0, 50, 0, 60, 0)
FrameFragment ==
    HueStream \o HeaderV1(0) \o Record(1, 10, 0, 20, 0, 30, 0) \o <<0, 0, 2, 40>>

\* a version-2 XY frame of two records, the first with a type byte of 1 and
\* the id 1 * 256 + 2
FrameV2 ==
    HueStream \o HeaderV2(1) \o <<1, 1, 2, 128, 0, 64, 0, 0, 255>>
        \o Record(2, 40, 0, 50, 0, 60, 0)

\* a frame cut short: the marker and three bytes
FrameShort == HueStream \o <<1, 0, 0>>

\* a frame of the maximal size: version 2, 20 channel records
FrameMax ==
    HueStream \o HeaderV2(0)
        \o [i \in 1.._pkt_light_data_size |->
                Record(1 + (((i - 1) \div 9) % 2), 0, 9, 0, 9, 0, 9)[((i - 1) % 9) + 1]]

\* what starts as a frame and goes on for more bytes than the buffer keeps
FrameOversized == HueStream \o HeaderV1(0) \o [i \in 1..OversizedLen |-> 0]

\* the values taken by the high and by the low byte of each of the three
\* 16-bit colour values of a channel record
HighBytes == <<0, 64, 128, 255>>
LowBytes == <<0, 128, 255>>

\* the number of frames of one record with these bytes, in either colour
\* space
NumDecodeFrames == 2 * (Len(HighBytes) * Len(LowBytes)) * (Len(HighBytes) * Len(LowBytes))
                     * (Len(HighBytes) * Len(LowBytes))

\* the d-th of them (d from 0 on)
DecodeFrame(d) ==
    LET h == Len(HighBytes)
        l == Len(LowBytes)
        color_space == d % 2
        b3 == HighBytes[((d \div 2) % h) + 1]
        b4 == LowBytes[((d \div (2 * h)) % l) + 1]
        b5 == HighBytes[((d \div (2 * h * l)) % h) + 1]
        b6 == LowBytes[((d \div (2 * h * l * h)) % l) + 1]
        b7 == HighBytes[((d \div (2 * h * l * h * l)) % h) + 1]
        b8 == LowBytes[((d \div (2 * h * l * h * l * h)) % l) + 1]
    IN  HueStream \o HeaderV1(color_space) \o Record(1, b3, b4, b5, b6, b7, b8)

\* the n-th stream of one such frame, and the frame whose marker ends it
DecodeStreams(n) == <<DecodeFrame(n - 1), Frame0>>

\* the streams a client may send: each the datagrams it sends, in order;
\* OpenSSL writes the payload of each datagram to its stdout with one write
Streams ==
    << <<Frame1, Frame0>>, <<FrameUnknown, Frame0>>,
       <<Frame0, Frame0, Frame1>>, <<Frame1, Frame0, Frame0>>,
       <<FrameOversized>>, <<FrameMax, FrameMax, Frame0>>,
       <<FrameShort, Frame1, Frame0>>,
       <<FrameMixed, Frame1>>, <<FrameFragment, Frame1>>,
       <<FrameTwo, FrameTwo, Frame0>>, <<FrameV2, Frame0>> >>

\* the streams sent in the runs with several sessions
SessionStreams == {1, 2}

\* the streams sent in the runs that exercise the splitting of the buffer
ReaderStreams == {3, 4, 5, 6, 7}

\* the stream sent in the runs that follow a stopped session to its end
StopStreams == {4}

\* the streams sent in the runs that follow the channel tasks of a frame
ChannelStreams == {8, 9, 10, 11}

\* the streams sent in the runs that exercise the decoding of a record
DecodeStreamIds == (Len(Streams) + 1)..(Len(Streams) + NumDecodeFrames)

\* the bytes of the first k datagrams of a stream
RECURSIVE Bytes(_, _)
Bytes(datagrams, k) ==
    IF k = 0 THEN <<>> ELSE Bytes(datagrams, k - 1) \o datagrams[k]

VARIABLES
    entertainment_api,   \* Config._entertainment_api: None or a session id
    nSessions,           \* number of EntertainmentAPI objects created so far
    interrupted,         \* [session -> EntertainmentAPI._interrupted]
    socket_daemon,       \* [session -> _socket_daemon is not None]
    likely_pktsize,      \* [session -> EntertainmentAPI._likely_pktsize]
    pc,                  \* [session -> position of its async_run task]
    buffer,              \* [session -> local `buffer` of async_run]
    pkts,                \* [session -> pieces of `pkts` not yet handled]
    pkt,                 \* [session -> local `pkt` of async_run]
    proc,                \* [session -> state of its OpenSSL subprocess]
    pos,                 \* [session -> bytes of its stdout already read]
    signal,              \* state of binary_sensor.emulated_hue_entertainment_active
    offTask,             \* [session -> state of the set_state("off") task]
    lastCall,            \* the last call of start/stop_entertainment and its outcome
    stream,              \* which of the Streams the client sends to an endpoint
    passInput,           \* [session -> `buffer` as split in the current pass]
    delivered,           \* [session -> packets given to __process_packet in that pass]
    gather,              \* [session -> the frames with unfinished channel tasks]
    executed,            \* [session -> the commands executed in that pass]
    _schedules,          \* scheduler._schedules: [id -> task]
    tasks,               \* the tasks add_scheduler created, in order of creation
    _config,             \* Config._config: the content of one stored item
    config_file,         \* the content of the file CONFIG_FILE
    _saver_task,         \* Config._saver_task: None or a task of saver_tasks
    saver_tasks,         \* the tasks create_save_task created, in order of creation
    writes,              \* the calls of async_save_json that have not returned
    stopState,           \* position of the Config.async_stop() call
    lastChange,          \* the operation that changed _config last
    _link_mode_enabled,  \* Config._link_mode_enabled
    timers,              \* due times of the pending call_later(300, auto_disable)
    clock,               \* the time of the event loop, in ticks
    enabledAt,           \* time of the last call that switched link mode on
    groups,              \* Config._config["groups"]: [group id -> group config]
    reindexed            \* _prune_and_reindex() has re-indexed the groups

vars == <<entertainment_api, nSessions, interrupted, socket_daemon,
          likely_pktsize, pc, buffer, pkts, pkt, proc, pos, signal, offTask,
          lastCall, stream, passInput, delivered, gather, executed,
          _schedules, tasks, _config, config_file, _saver_task, saver_tasks,
          writes, stopState, lastChange, _link_mode_enabled, timers, clock,
          enabledAt, groups, reindexed>>

Sessions == 1..MaxSessions

\* ---------------------------------------------------------------------
\*  Pure helpers of the read loop
\* ---------------------------------------------------------------------
\* bytes.find: the first index >= i at which sep occurs in buf, 0 if none
Find(buf, sep, i) ==
    LET found == {j \in i..(Len(buf) - Len(sep) + 1) :
                     SubSeq(buf, j, j + Len(sep) - 1) = sep}
    IN  IF found = {} THEN 0
        ELSE CHOOSE j \in found : \A k \in found : j <= k

\* (mutant) a split that leaves the separator at the head of the pieces
\* that follow it
RECURSIVE split_keeping_sep(_, _)
split_keeping_sep(buf, sep) ==
    LET i == Find(buf, sep, 1) IN
    IF i = 0 THEN <<buf>>
    ELSE LET r == split_keeping_sep(SubSeq(buf, i + Len(sep), Len(buf)), sep)
         IN  <<SubSeq(buf, 1, i - 1)>> \o <<sep \o Head(r)>> \o Tail(r)

\* bytes.split(sep): cut at every (leftmost, non-overlapping) occurrence
RECURSIVE split(_, _)
split(buf, sep) ==
    LET i == Find(buf, sep, 1) IN
    IF i = 0 THEN <<buf>>
    ELSE <<SubSeq(buf, 1, i - 1)>> \o split(SubSeq(buf, i + Len(sep), Len(buf)), sep)

\* (mutant) the buffer is not cut
Trim_none(buf, n) == buf

\* buffer[-n:]
Trim(buf, n) ==
    IF Len(buf) <= n THEN buf ELSE SubSeq(buf, Len(buf) - n + 1, Len(buf))

\* chunked(size, source), as the list of its chunks
RECURSIVE chunked(_, _)
chunked(size, source) ==
    IF Len(source) = 0 THEN <<>>
    ELSE IF Len(source) <= size THEN <<source>>
    ELSE <<SubSeq(source, 1, size)>> \o chunked(size, SubSeq(source, size + 1, Len(source)))

\* __async_process_light_packet raises: an index past the end of a short
\* chunk (IndexError) or a light id that is not in the config (Exception)
LightPacketRaises(light_data) ==
    \/ Len(light_data) < 3
    \/ (light_data[2] * 256 + light_data[3]) \notin Lights
    \/ Len(light_data) < 9

\* (mutant) the payload is taken from byte 16 on whatever the version
Chunks_version_1(packet) ==
    IF Len(packet) < _pkt_header_begin_size + _pkt_header_protocol_size
    THEN <<>>
    ELSE chunked(9, SubSeq(packet, 17, Len(packet)))

\* __process_packet: the 9-byte chunks of the payload of a packet, none for
\* a packet shorter than the minimal header
Chunks(packet) ==
    IF Len(packet) < _pkt_header_begin_size + _pkt_header_protocol_size
    THEN <<>>
    ELSE LET version == packet[10]
             lights_data == IF version = 1 THEN SubSeq(packet, 17, Len(packet))
                            ELSE SubSeq(packet, 53, Len(packet))
         IN  chunked(9, lights_data)

\* `await asyncio.gather(*tasks)` suspends the read loop when there is a
\* task to wait for; __process_packet returns at once otherwise
Suspends(packet) == Len(Chunks(packet)) > 0

\* (mutant) the header bytes packet[9] and packet[14] are read without the
\* test of the length before: an IndexError on a packet that lacks them
ProcessPacketRaises_unguarded(packet) ==
    \/ Len(packet) < 15
    \/ \E i \in 1..Len(Chunks(packet)) : LightPacketRaises(Chunks(packet)[i])

\* __process_packet raises: asyncio.gather re-raises the first exception of
\* its channel tasks to the awaiting read loop
ProcessPacketRaises(packet) ==
    \E i \in 1..Len(Chunks(packet)) : LightPacketRaises(Chunks(packet)[i])

\* packet[14] selects the colour space: 0 is COLOR_TYPE_RGB, anything else
\* COLOR_TYPE_XY_BR
ColorSpace(packet) == IF packet[15] = 0 THEN "RGB" ELSE "XY Brightness"

\* the denominator of the x and y values
XYScale == 65535

\* the command builder: set_rgb stores the triple that
\* `call.control_state.rgb_color` gives back
set_rgb(red, green, blue) == <<red, green, blue>>

\* (mutant) the 16-bit values are rounded to the nearest of the 8-bit values
\* instead of truncated
LightCall_rounded(light_data, color_space) ==
    LET light_id == light_data[2] * 256 + light_data[3] IN
    IF color_space = "RGB"
    THEN LET red == (light_data[4] * 256 + light_data[5] + 128) \div 256
             green == (light_data[6] * 256 + light_data[7] + 128) \div 256
             blue == (light_data[8] * 256 + light_data[9] + 128) \div 256
         IN  [light_id |-> light_id, power_state |-> TRUE,
              color_mode |-> "rgb", color |-> set_rgb(red, green, blue),
              brightness |-> (red + green + blue) \div 3,
              transition_ms |-> 0, respect_throttle |-> TRUE]
    ELSE LET x == light_data[4] * 256 + light_data[5]
             y == light_data[6] * 256 + light_data[7]
         IN  [light_id |-> light_id, power_state |-> TRUE,
              color_mode |-> "xy", color |-> <<x, y>>,
              brightness |-> (light_data[8] * 256 + light_data[9] + 128) \div 256,
              transition_ms |-> 0, respect_throttle |-> TRUE]

\* __async_process_light_packet: the control state built from one 9-byte
\* chunk. int(n / 256) and int(n / 3) of a non-negative integer n, computed
\* in floating point, are the integer quotients. The floats x and y are
\* kept as their numerators over XYScale.
LightCall(light_data, color_space) ==
    LET light_id == light_data[2] * 256 + light_data[3] IN
    IF color_space = "RGB"
    THEN LET red == (light_data[4] * 256 + light_data[5]) \div 256
             green == (light_data[6] * 256 + light_data[7]) \div 256
             blue == (light_data[8] * 256 + light_data[9]) \div 256
             rgb_color == set_rgb(red, green, blue)
         IN  [light_id |-> light_id, power_state |-> TRUE,
              color_mode |-> "rgb", color |-> rgb_color,
              brightness |-> (rgb_color[1] + rgb_color[2] + rgb_color[3]) \div 3,
              transition_ms |-> 0, respect_throttle |-> TRUE]
    ELSE LET x == light_data[4] * 256 + light_data[5]
             y == light_data[6] * 256 + light_data[7]
         IN  [light_id |-> light_id, power_state |-> TRUE,
              color_mode |-> "xy", color |-> <<x, y>>,
              brightness |-> (light_data[8] * 256 + light_data[9]) \div 256,
              transition_ms |-> 0, respect_throttle |-> TRUE]

\* (mutant) the read loop goes on when the first channel task is done
Awaited_first_completed(g) == {CHOOSE i \in g.pending : \A j \in g.pending : i <= j}

\* `await asyncio.gather(*tasks)`: the channel tasks that are done when the
\* await returns, all of them
Awaited(g) == g.pending

\* asyncio.gather(*tasks) of __process_packet: the packet, its number among
\* the packets of the pass and the chunks whose task has not completed yet
NewGather(packet, frame) ==
    [packet |-> packet, frame |-> frame, pending |-> 1..Len(Chunks(packet))]

\* the commands of the chunks `done` of the packet of gather g, from chunk i
\* on, in the order of the chunks
RECURSIVE Calls(_, _, _)
Calls(g, done, i) ==
    IF i > Len(Chunks(g.packet)) THEN <<>>
    ELSE (IF i \in done
          THEN <<[frame |-> g.frame, chunk |-> i,
                  call |-> LightCall(Chunks(g.packet)[i], ColorSpace(g.packet))]>>
          ELSE <<>>) \o Calls(g, done, i + 1)

\* ---------------------------------------------------------------------
\*  Initial state: Config.__init__ (no session, no saver task); the
\*  sensor has never been switched on
\* ---------------------------------------------------------------------
\* ---------------------------------------------------------------------
\*  The persistent storage of Config.  One stored item is followed (a user
\*  record): _config is its content in memory, config_file its content in
\*  the file.
\* ---------------------------------------------------------------------
Absent == 0                      \* the item is not in the storage
Values == 1..NumValues           \* the contents the item can have
Loaded == 1                      \* the content load_json() found in the file
Unset == -1                      \* a write that has not serialised the data yet

\* a call of async_save_json(path, self._config) that has not returned:
\* who awaits it, and the content it is going to write
Write(kind, task) == [kind |-> kind, task |-> task, snap |-> Unset]

\* ---------------------------------------------------------------------
\*  The "groups" section of the storage.  A group id is a string of decimal
\*  digits, written here as the number it spells; a group config is an
\*  area group (it has the key "area_id") or a local group, and `name`
\*  stands for the rest of its content.
\* ---------------------------------------------------------------------
GroupIds == {1, 2, 3, 4, 10}

GroupConfig(gid, is_area) == [area_id |-> is_area, name |-> gid]

\* the groups sections that can be left when the pruning is over
GroupConfigs ==
    UNION {{[gid \in S |-> GroupConfig(gid, area[gid])] : area \in [S -> BOOLEAN]} :
               S \in SUBSET GroupIds}

NoGroups == [gid \in {} |-> GroupConfig(gid, FALSE)]

\* the state after Config.__init__ (done = TRUE) or inside it, when
\* _prune_and_reindex() is about to re-index the groups: it has left
\* _saver_task None and creates the task of an immediate commit at its end
InitFrom(streams, group_configs, done) ==
    /\ entertainment_api = None
    /\ nSessions = 0
    /\ interrupted = [s \in Sessions |-> FALSE]
    /\ socket_daemon = [s \in Sessions |-> FALSE]
    /\ likely_pktsize = [s \in Sessions |-> 0]
    /\ pc = [s \in Sessions |-> "none"]
    /\ buffer = [s \in Sessions |-> <<>>]
    /\ pkts = [s \in Sessions |-> <<>>]
    /\ pkt = [s \in Sessions |-> <<>>]
    /\ proc = [s \in Sessions |-> "none"]
    /\ pos = [s \in Sessions |-> 0]
    /\ signal = "off"
    /\ offTask = [s \in Sessions |-> "none"]
    /\ lastCall = [op |-> "none", ret |-> "none", had_session |-> FALSE]
    /\ stream \in streams
    /\ passInput = [s \in Sessions |-> <<>>]
    /\ delivered = [s \in Sessions |-> <<>>]
    /\ gather = [s \in Sessions |-> <<>>]
    /\ executed = [s \in Sessions |-> <<>>]
    /\ _schedules = [id \in {} |-> 0]
    /\ tasks = <<>>
    /\ _config = Loaded
    /\ config_file = Loaded
    /\ _saver_task = None
    /\ saver_tasks = <<>>
    /\ writes = {Write("init", None)}
    /\ stopState = "idle"
    /\ lastChange = "none"
    /\ _link_mode_enabled = FALSE
    /\ timers = {}
    /\ clock = 0
    /\ enabledAt = 0
    /\ groups \in group_configs
    /\ reindexed = done

InitWith(streams) == InitFrom(streams, {NoGroups}, TRUE)

ReindexInit == InitFrom({1}, GroupConfigs, FALSE)

Init == InitWith(SessionStreams)

\* the same, for the runs that exercise the splitting of the buffer
ReaderInit == InitWith(ReaderStreams)

\* the same, for the runs that follow a stopped session to its end
StopInit == InitWith(StopStreams)

\* the same, for the runs that follow the channel tasks of a frame
ChannelInit == InitWith(ChannelStreams)

\* the same, for the runs that exercise the decoding of a record
DecodeInit == InitWith(DecodeStreamIds)

\* Config.entertainment_active
entertainment_active == entertainment_api # None

\* the datagrams of the stream that is sent
Datagrams ==
    IF stream \in DecodeStreamIds THEN DecodeStreams(stream - Len(Streams))
    ELSE Streams[stream]

\* A read loop that got EOF while not interrupted calls read() again at
\* once. StreamReader.read returns b"" at EOF without suspending, so the
\* task never yields (pc = "spin"): no other task or callback of the event
\* loop runs any more.
Hung == \E s \in Sessions : pc[s] = "spin"

\* ---------------------------------------------------------------------
\*  EntertainmentAPI.__init__: the fields, and the async_run task created
\* ---------------------------------------------------------------------
EntertainmentAPI_init(s, num_lights) ==
    /\ interrupted' = [interrupted EXCEPT ![s] = FALSE]
    /\ socket_daemon' = [socket_daemon EXCEPT ![s] = FALSE]
    /\ pc' = [pc EXCEPT ![s] = "start"]
    /\ likely_pktsize' = [likely_pktsize EXCEPT ![s] = 16 + (9 * num_lights)]

\* ---------------------------------------------------------------------
\*  Config.start_entertainment(group_conf, user_data)
\* ---------------------------------------------------------------------
\* (mutant) the test `if not self._entertainment_api` is missing
start_entertainment_unguarded(num_lights) ==
    /\ ~Hung
    /\ nSessions < MaxSessions
    /\ nSessions' = nSessions + 1
    /\ EntertainmentAPI_init(nSessions + 1, num_lights)
    /\ entertainment_api' = nSessions + 1
    /\ lastCall' = [op |-> "start", ret |-> "True",
                    had_session |-> entertainment_api # None]
    /\ UNCHANGED <<buffer, pkts, pkt, proc, pos, signal, offTask, stream,
                   passInput, delivered, gather, executed, _schedules,
                   tasks, _config, config_file, _saver_task, saver_tasks,
                   writes, stopState, lastChange, _link_mode_enabled,
                   timers, clock, enabledAt, groups, reindexed>>

start_entertainment(num_lights) ==
    /\ ~Hung
    /\ IF entertainment_api = None
       THEN /\ nSessions < MaxSessions
            /\ nSessions' = nSessions + 1
            /\ EntertainmentAPI_init(nSessions + 1, num_lights)
            /\ entertainment_api' = nSessions + 1
            /\ lastCall' = [op |-> "start", ret |-> "True", had_session |-> FALSE]
       ELSE /\ lastCall' = [op |-> "start", ret |-> "False", had_session |-> TRUE]
            /\ UNCHANGED <<entertainment_api, nSessions, interrupted,
                           socket_daemon, pc, likely_pktsize>>
    /\ UNCHANGED <<buffer, pkts, pkt, proc, pos, signal, offTask, stream,
                   passInput, delivered, gather, executed, _schedules,
                   tasks, _config, config_file, _saver_task, saver_tasks,
                   writes, stopState, lastChange, _link_mode_enabled,
                   timers, clock, enabledAt, groups, reindexed>>

\* ---------------------------------------------------------------------
\*  EntertainmentAPI.stop()
\* ---------------------------------------------------------------------
\* Process.kill() raises ProcessLookupError once the subprocess has exited
\* and its transport has been closed
KillRaises(s) == socket_daemon[s] /\ proc[s] = "reaped"

\* Process.kill() on a process that is known: SIGKILL ends it
Kill(s) ==
    IF socket_daemon[s] /\ proc[s] = "alive"
    THEN [proc EXCEPT ![s] = "exited"]
    ELSE proc

\* stop() returning normally
stop(s) ==
    /\ interrupted' = [interrupted EXCEPT ![s] = TRUE]
    /\ proc' = Kill(s)
    /\ offTask' = [offTask EXCEPT ![s] = "pending"]

\* stop() left by the exception of kill(), after _interrupted was set
stop_raises(s) ==
    /\ interrupted' = [interrupted EXCEPT ![s] = TRUE]
    /\ UNCHANGED <<proc, offTask>>

\* ---------------------------------------------------------------------
\*  Config.stop_entertainment().  The force_update_all() task it creates at
\*  the end acts on the device layer only, which is outside this model.
\* ---------------------------------------------------------------------
\* (mutant) the test `if self._entertainment_api` is missing: stop() is
\* called on None
stop_entertainment_unguarded ==
    /\ ~Hung
    /\ IF entertainment_api # None
       THEN /\ ~KillRaises(entertainment_api)
            /\ stop(entertainment_api)
            /\ entertainment_api' = None
            /\ lastCall' = [op |-> "stop", ret |-> "None", had_session |-> TRUE]
       ELSE /\ lastCall' = [op |-> "stop", ret |-> "AttributeError",
                            had_session |-> FALSE]
            /\ UNCHANGED <<entertainment_api, interrupted, proc, offTask>>
    /\ UNCHANGED <<nSessions, socket_daemon, likely_pktsize, pc, buffer,
                   pkts, pkt, pos, signal, stream, passInput, delivered,
                   gather, executed, _schedules, tasks, _config,
                   config_file, _saver_task, saver_tasks, writes,
                   stopState, lastChange, _link_mode_enabled, timers,
                   clock, enabledAt, groups, reindexed>>

\* the call self.stop_entertainment(), as every caller makes it
stop_entertainment_call ==
    /\ ~Hung
    /\ IF entertainment_api # None
       THEN IF KillRaises(entertainment_api)
            THEN /\ stop_raises(entertainment_api)
                 /\ lastCall' = [op |-> "stop", ret |-> "ProcessLookupError",
                                 had_session |-> TRUE]
                 /\ UNCHANGED entertainment_api
            ELSE /\ stop(entertainment_api)
                 /\ entertainment_api' = None
                 /\ lastCall' = [op |-> "stop", ret |-> "None", had_session |-> TRUE]
       ELSE /\ lastCall' = [op |-> "stop", ret |-> "None", had_session |-> FALSE]
            /\ UNCHANGED <<entertainment_api, interrupted, proc, offTask>>

stop_entertainment ==
    /\ stop_entertainment_call
    /\ UNCHANGED <<nSessions, socket_daemon, likely_pktsize, pc, buffer,
                   pkts, pkt, pos, signal, stream, passInput, delivered,
                   gather, executed, _schedules, tasks, _config,
                   config_file, _saver_task, saver_tasks, writes,
                   stopState, lastChange, _link_mode_enabled, timers,
                   clock, enabledAt, groups, reindexed>>

\* the task created by stop(): controller_hass.set_state(HASS_SENSOR, "off").
\* Tasks start in creation order, so the session's async_run task, created
\* before it, has made its first step.
OffTask(s) ==
    /\ ~Hung
    /\ offTask[s] = "pending"
    /\ pc[s] # "start"
    /\ signal' = "off"
    /\ offTask' = [offTask EXCEPT ![s] = "done"]
    /\ UNCHANGED <<entertainment_api, nSessions, interrupted,
                   socket_daemon, likely_pktsize, pc, buffer, pkts, pkt,
                   proc, pos, lastCall, stream, passInput, delivered,
                   gather, executed, _schedules, tasks, _config,
                   config_file, _saver_task, saver_tasks, writes,
                   stopState, lastChange, _link_mode_enabled, timers,
                   clock, enabledAt, groups, reindexed>>

\* ---------------------------------------------------------------------
\*  EntertainmentAPI.async_run, one action per stretch between two awaits
\* ---------------------------------------------------------------------
Min(a, b) == IF a < b THEN a ELSE b

\* the async_run task of s is inside its read loop
InLoop(s) == pc[s] \in {"read", "dispatch", "spin"}

\* the async_run task of s has ended
Ended(s) == pc[s] \in {"done", "failed"}

\* the task ends (state "done", or "failed" when an exception ends it): its
\* locals and the reader of its stdout are released
Exit(s, state) ==
    /\ pc' = [pc EXCEPT ![s] = state]
    /\ buffer' = [buffer EXCEPT ![s] = <<>>]
    /\ pkts' = [pkts EXCEPT ![s] = <<>>]
    /\ pkt' = [pkt EXCEPT ![s] = <<>>]
    /\ passInput' = [passInput EXCEPT ![s] = <<>>]
    /\ delivered' = [delivered EXCEPT ![s] = <<>>]
    /\ pos' = [pos EXCEPT ![s] = 0]

\* (mutant) `while True`: the flag is not tested
Interrupted_never(s) == FALSE

\* the test of `while not self._interrupted`
Interrupted(s) == interrupted[s]

\* `while not self._interrupted`: the loop is left, or the buffer is trimmed
\* and read() is called. at_eof: the last read returned b"", and so will
\* every further one without the task being suspended.
LoopTop(s, buf, at_eof) ==
    IF Interrupted(s)
    THEN Exit(s, "done")
    ELSE /\ pc' = [pc EXCEPT ![s] = IF at_eof THEN "spin" ELSE "read"]
         /\ buffer' = [buffer EXCEPT ![s] =
                Trim(buf, (_max_pkt_size + _pkt_header_begin_size) * 2)]

\* (mutant) the guess is stored without the test that it is positive
AdjustReadSize_untested(likely, packet, tail) == Len(packet) - Len(tail)

\* `if (guess := len(pkt) - len(buffer)) > 0: self._likely_pktsize = guess`
AdjustReadSize(likely, packet, tail) ==
    IF Len(packet) - Len(tail) > 0 THEN Len(packet) - Len(tail) ELSE likely

\* (mutant) what precedes the first marker is thrown away
Retained_after_marker(pieces) ==
    IF Len(pieces) > 1 THEN pieces[Len(pieces)] ELSE <<>>

\* `buffer = pkts[-1]`, and the buffer left as it is when it holds no
\* marker and is the only piece
Retained(pieces) == pieces[Len(pieces)]

\* the leading pieces of pkts[:-1] whose __process_packet returns without
\* suspending the task
RECURSIVE InlineCount(_)
InlineCount(pieces) ==
    IF Len(pieces) <= 1 THEN 0
    ELSE IF Suspends(HueStream \o Head(pieces)) THEN 0
    ELSE 1 + InlineCount(Tail(pieces))

\* `for pkt in pkts[:-1]` from the piece Head(pieces) on, with `sofar` handed
\* to __process_packet before and `last` the value of pkt: up to the next
\* gather that suspends the task or, after the last packet, `buffer =
\* pkts[-1]`, the adjustment of the read size and the next turn of the loop
ForLoop(s, pieces, sofar, last, buf, at_eof) ==
    LET k == InlineCount(pieces)
        rest == SubSeq(pieces, k + 1, Len(pieces))
        given == sofar \o [i \in 1..k |-> HueStream \o pieces[i]]
        packet == IF k > 0 THEN HueStream \o pieces[k] ELSE last
    IN  IF Len(rest) > 1
        THEN /\ pkts' = [pkts EXCEPT ![s] = rest]
             /\ pkt' = [pkt EXCEPT ![s] = HueStream \o Head(rest)]
             /\ delivered' = [delivered EXCEPT ![s] =
                    Append(given, HueStream \o Head(rest))]
             /\ pc' = [pc EXCEPT ![s] = "dispatch"]
             /\ buffer' = [buffer EXCEPT ![s] = buf]
             /\ UNCHANGED likely_pktsize
        ELSE /\ likely_pktsize' = [likely_pktsize EXCEPT ![s] =
                    AdjustReadSize(@, packet, Retained(rest))]
             /\ IF Interrupted(s)
                THEN Exit(s, "done")
                ELSE /\ pkts' = [pkts EXCEPT ![s] = <<>>]
                     /\ pkt' = [pkt EXCEPT ![s] = packet]
                     /\ delivered' = [delivered EXCEPT ![s] = given]
                     /\ LoopTop(s, Retained(rest), at_eof)

\* the task starts: it logs and calls set_state(HASS_SENSOR, "on", ...)
AsyncRunStart(s) ==
    /\ ~Hung
    /\ pc[s] = "start"
    /\ pc' = [pc EXCEPT ![s] = "set_state"]
    /\ UNCHANGED <<entertainment_api, nSessions, interrupted,
                   socket_daemon, likely_pktsize, buffer, pkts, pkt, proc,
                   pos, signal, offTask, lastCall, stream, passInput,
                   delivered, gather, executed, _schedules, tasks, _config,
                   config_file, _saver_task, saver_tasks, writes,
                   stopState, lastChange, _link_mode_enabled, timers,
                   clock, enabledAt, groups, reindexed>>

\* set_state("on") takes effect and returns; create_subprocess_exec is called
SetStateOn(s) ==
    /\ ~Hung
    /\ pc[s] = "set_state"
    /\ signal' = "on"
    /\ pc' = [pc EXCEPT ![s] = "spawn"]
    /\ UNCHANGED <<entertainment_api, nSessions, interrupted,
                   socket_daemon, likely_pktsize, buffer, pkts, pkt, proc,
                   pos, offTask, lastCall, stream, passInput, delivered,
                   gather, executed, _schedules, tasks, _config,
                   config_file, _saver_task, saver_tasks, writes,
                   stopState, lastChange, _link_mode_enabled, timers,
                   clock, enabledAt, groups, reindexed>>

\* create_subprocess_exec returns the process; the loop is entered
Spawn(s) ==
    /\ ~Hung
    /\ pc[s] = "spawn"
    /\ socket_daemon' = [socket_daemon EXCEPT ![s] = TRUE]
    /\ proc' = [proc EXCEPT ![s] = "alive"]
    /\ LoopTop(s, <<>>, FALSE)
    /\ IF Interrupted(s) THEN TRUE
       ELSE UNCHANGED <<pkts, pkt, passInput, delivered, pos>>
    /\ UNCHANGED <<entertainment_api, nSessions, interrupted,
                   likely_pktsize, signal, offTask, lastCall, stream,
                   gather, executed, _schedules, tasks, _config,
                   config_file, _saver_task, saver_tasks, writes,
                   stopState, lastChange, _link_mode_enabled, timers,
                   clock, enabledAt, groups, reindexed>>

\* create_subprocess_exec raises (no OpenSSL binary): the task ends with it
SpawnFails(s) ==
    /\ ~Hung
    /\ pc[s] = "spawn"
    /\ Exit(s, "failed")
    /\ UNCHANGED <<entertainment_api, nSessions, interrupted,
                   socket_daemon, likely_pktsize, proc, signal, offTask,
                   lastCall, stream, gather, executed, _schedules, tasks,
                   _config, config_file, _saver_task, saver_tasks, writes,
                   stopState, lastChange, _link_mode_enabled, timers,
                   clock, enabledAt, groups, reindexed>>

\* the gathers of s after a step of its loop: those left unfinished and,
\* when the step ends in `await asyncio.gather(*tasks)`, the new one
Gathers(s, unfinished) ==
    gather' = [gather EXCEPT ![s] =
        unfinished \o (IF pc'[s] = "dispatch"
                        THEN <<NewGather(pkt'[s], Len(delivered'[s]))>>
                        ELSE <<>>)]

\* read() has returned `data` (b"" at EOF), new_pos bytes are read now:
\* append, split on the marker, handle the packets
AfterRead(s, data, new_pos) ==
    LET joined == buffer[s] \o data
        pieces == split(joined, HueStream)
        at_eof == data = <<>>
        \* what follows, but for an Exit, which sets these itself
        keeps == /\ passInput' = [passInput EXCEPT ![s] = joined]
                 /\ pos' = [pos EXCEPT ![s] = new_pos]
    IN  /\ IF Len(pieces) > 1
           THEN /\ ForLoop(s, pieces, <<>>, <<>>, joined, at_eof)
                /\ IF Ended(s)' THEN TRUE ELSE keeps
           ELSE /\ LoopTop(s, Retained(pieces), at_eof)
                /\ UNCHANGED likely_pktsize
                /\ IF Interrupted(s) THEN TRUE
                   ELSE /\ keeps
                        /\ delivered' = [delivered EXCEPT ![s] = <<>>]
                        /\ UNCHANGED <<pkts, pkt>>
        /\ Gathers(s, gather[s])
        /\ executed' = [executed EXCEPT ![s] = <<>>]

\* stdout.read(_likely_pktsize) returns at most that many of the bytes that
\* have arrived: those of the first k datagrams, each written as a whole
Read(s, k) ==
    /\ ~Hung
    /\ pc[s] = "read"
    /\ Len(Bytes(Datagrams, k)) > pos[s]
    /\ LET n == Min(likely_pktsize[s], Len(Bytes(Datagrams, k)) - pos[s])
       IN  AfterRead(s, SubSeq(Bytes(Datagrams, k), pos[s] + 1, pos[s] + n), pos[s] + n)
    /\ UNCHANGED <<entertainment_api, nSessions, interrupted,
                   socket_daemon, proc, signal, offTask, lastCall, stream,
                   _schedules, tasks, _config, config_file, _saver_task,
                   saver_tasks, writes, stopState, lastChange,
                   _link_mode_enabled, timers, clock, enabledAt, groups,
                   reindexed>>

\* stdout.read returns b"": the subprocess has exited
ReadEOF(s) ==
    /\ ~Hung
    /\ pc[s] = "read"
    /\ proc[s] \in {"exited", "reaped"}
    /\ AfterRead(s, <<>>, pos[s])
    /\ UNCHANGED <<entertainment_api, nSessions, interrupted,
                   socket_daemon, proc, signal, offTask, lastCall, stream,
                   _schedules, tasks, _config, config_file, _saver_task,
                   saver_tasks, writes, stopState, lastChange,
                   _link_mode_enabled, timers, clock, enabledAt, groups,
                   reindexed>>

\* a channel task of the frame that s is waiting for completes before the
\* others of its gather, or a task left behind by a failed gather
\* completes: its command is executed, unless it raises
Channel(s, i) ==
    /\ ~Hung
    /\ gather[s] # <<>>
    /\ i \in Head(gather[s]).pending
    /\ LET g == Head(gather[s])
           raises == LightPacketRaises(Chunks(g.packet)[i])
           left == IF g.pending = {i} THEN Tail(gather[s])
                   ELSE <<[g EXCEPT !.pending = @ \ {i}]>> \o Tail(gather[s])
       IN  /\ \/ pc[s] = "dispatch" /\ g.pending # {i} /\ ~raises
              \/ pc[s] = "failed"
           /\ gather' = [gather EXCEPT ![s] = left]
           /\ executed' = [executed EXCEPT ![s] =
                  IF raises THEN @ ELSE @ \o Calls(g, {i}, 1)]
    /\ UNCHANGED <<entertainment_api, nSessions, interrupted,
                   socket_daemon, likely_pktsize, pc, buffer, pkts, pkt,
                   proc, pos, signal, offTask, lastCall, stream, passInput,
                   delivered, _schedules, tasks, _config, config_file,
                   _saver_task, saver_tasks, writes, stopState, lastChange,
                   _link_mode_enabled, timers, clock, enabledAt, groups,
                   reindexed>>

\* the gather of `await self.__process_packet(pkt)` completes: with the
\* exception of a channel task, the other tasks being left behind, or else
\* with the last of its tasks, and the for loop goes on
Dispatch(s) ==
    /\ ~Hung
    /\ pc[s] = "dispatch"
    /\ LET g == Head(gather[s]) IN
       IF ProcessPacketRaises(pkt[s])
       THEN /\ Exit(s, "failed") /\ UNCHANGED likely_pktsize
            /\ \E i \in g.pending :
                  /\ LightPacketRaises(Chunks(g.packet)[i])
                  /\ gather' = [gather EXCEPT ![s] =
                        IF g.pending = {i} THEN <<>>
                        ELSE <<[g EXCEPT !.pending = @ \ {i}]>>]
            /\ executed' = [executed EXCEPT ![s] = <<>>]
       ELSE /\ ForLoop(s, Tail(pkts[s]), delivered[s], pkt[s], buffer[s], FALSE)
            /\ IF Ended(s)' THEN TRUE ELSE UNCHANGED <<passInput, pos>>
            /\ Gathers(s, (IF g.pending = Awaited(g) THEN <<>>
                           ELSE <<[g EXCEPT !.pending = @ \ Awaited(g)]>>)
                              \o Tail(gather[s]))
            /\ executed' = [executed EXCEPT ![s] =
                  IF Ended(s)' THEN <<>>
                  ELSE @ \o Calls(g, g.pending \cap Awaited(g), 1)]
    /\ UNCHANGED <<entertainment_api, nSessions, interrupted,
                   socket_daemon, proc, signal, offTask, lastCall, stream,
                   _schedules, tasks, _config, config_file, _saver_task,
                   saver_tasks, writes, stopState, lastChange,
                   _link_mode_enabled, timers, clock, enabledAt, groups,
                   reindexed>>

\* ---------------------------------------------------------------------
\*  The OpenSSL subprocess
\* ---------------------------------------------------------------------
\* the subprocess exits by itself (port 2100 in use, crash, ...)
ProcExit(s) ==
    /\ ~Hung
    /\ proc[s] = "alive"
    /\ proc' = [proc EXCEPT ![s] = "exited"]
    /\ UNCHANGED <<entertainment_api, nSessions, interrupted,
                   socket_daemon, likely_pktsize, pc, buffer, pkts, pkt,
                   pos, signal, offTask, lastCall, stream, passInput,
                   delivered, gather, executed, _schedules, tasks, _config,
                   config_file, _saver_task, saver_tasks, writes,
                   stopState, lastChange, _link_mode_enabled, timers,
                   clock, enabledAt, groups, reindexed>>

\* the event loop closes the transport of the exited subprocess; a loop
\* waiting in read() is woken by the EOF before that. Only the daemon of the
\* current session is ever killed, so only its transport is followed.
Reap(s) ==
    /\ ~Hung
    /\ proc[s] = "exited"
    /\ pc[s] # "read"
    /\ entertainment_api = s
    /\ proc' = [proc EXCEPT ![s] = "reaped"]
    /\ UNCHANGED <<entertainment_api, nSessions, interrupted,
                   socket_daemon, likely_pktsize, pc, buffer, pkts, pkt,
                   pos, signal, offTask, lastCall, stream, passInput,
                   delivered, gather, executed, _schedules, tasks, _config,
                   config_file, _saver_task, saver_tasks, writes,
                   stopState, lastChange, _link_mode_enabled, timers,
                   clock, enabledAt, groups, reindexed>>

\* the steps of the async_run task of session s
AsyncRun(s) ==
    \/ AsyncRunStart(s)
    \/ SetStateOn(s)
    \/ Spawn(s)
    \/ SpawnFails(s)
    \/ \E k \in 1..Len(Datagrams) : Read(s, k)
    \/ ReadEOF(s)
    \/ Dispatch(s)

Next ==
    \/ \E num_lights \in GroupSizes : start_entertainment(num_lights)
    \/ stop_entertainment
    \/ \E s \in Sessions : AsyncRun(s)
    \/ \E s \in Sessions : OffTask(s)
    \/ \E s \in Sessions : ProcExit(s)
    \/ \E s \in Sessions : Reap(s)

Spec == Init /\ [][Next]_vars

\* the event loop runs every task that is ready
FairSpec ==
    /\ Spec
    /\ \A s \in Sessions : WF_vars(AsyncRun(s)) /\ WF_vars(OffTask(s))

\* one session, fed streams in which a read returns several frames
ReaderStart == \E num_lights \in ReaderGroupSizes :
    nSessions = 0 /\ start_entertainment(num_lights)

ReaderNext ==
    \/ ReaderStart
    \/ stop_entertainment
    \/ \E s \in Sessions : AsyncRun(s)
    \/ \E s \in Sessions : OffTask(s)
    \/ \E s \in Sessions : ProcExit(s)
    \/ \E s \in Sessions : Reap(s)

ReaderSpec == ReaderInit /\ [][ReaderNext]_vars

\* one session that is fed short frames, the event loop running every
\* task that is ready
StopFairSpec ==
    /\ StopInit /\ [][ReaderNext]_vars
    /\ \A s \in Sessions : WF_vars(AsyncRun(s)) /\ WF_vars(OffTask(s))

\* the channel tasks of the frame that s is waiting for, or those left
\* behind by its failed gather
ChannelTasks(s) == IF gather[s] = <<>> THEN {} ELSE Head(gather[s]).pending

\* one session, fed frames of several channel records, the channel tasks
\* of a frame completing one by one
ChannelNext ==
    \/ ReaderNext
    \/ \E s \in Sessions : \E i \in ChannelTasks(s) : Channel(s, i)

ChannelSpec == ChannelInit /\ [][ChannelNext]_vars

\* one session that is fed one frame of one channel record and is neither
\* stopped nor loses its subprocess
DecodeNext ==
    \/ ReaderStart
    \/ \E s \in Sessions : AsyncRunStart(s)
    \/ \E s \in Sessions : SetStateOn(s)
    \/ \E s \in Sessions : Spawn(s)
    \/ \E s \in Sessions : \E k \in 1..Len(Datagrams) : Read(s, k)
    \/ \E s \in Sessions : Dispatch(s)

DecodeSpec == DecodeInit /\ [][DecodeNext]_vars

\* =====================================================================
\*  Properties
\* =====================================================================
StartCalled == \E num_lights \in GroupSizes : start_entertainment(num_lights)

\* C1: a start_entertainment call made while a session exists returns
\* False, creates no EntertainmentAPI (so no async_run task, which is what
\* spawns the endpoint subprocess) and leaves the existing session alone.
C1_StartWhileActiveRefused ==
    [][ (StartCalled /\ entertainment_api # None) =>
            /\ lastCall'.ret = "False"
            /\ nSessions' = nSessions
            /\ entertainment_api' = entertainment_api
            /\ pc' = pc
            /\ proc' = proc
            /\ socket_daemon' = socket_daemon ]_vars

\* a second start has been refused while the first session is still there
C1_Witness ==
    /\ lastCall = [op |-> "start", ret |-> "False", had_session |-> TRUE]
    /\ nSessions = 1
    /\ entertainment_api = 1

\* C2: when create_subprocess_exec fails, the start is not reported as
\* successful, entertainment_active is False and the signal is not "on".
\* (Stated for the latest session, with stop_entertainment not called.)
C2_FailedSpawnLeavesNoState ==
    \A s \in Sessions :
        (pc[s] = "failed" /\ ~socket_daemon[s] /\ ~interrupted[s] /\ s = nSessions) =>
            /\ ~(lastCall.op = "start" /\ lastCall.ret = "True")
            /\ ~entertainment_active
            /\ signal # "on"

\* C3: a read that returns EOF while stop() has not been called ends the
\* read loop: no further read is issued.
C3_EofEndsLoop ==
    [][ \A s \in Sessions :
            (ReadEOF(s) /\ ~interrupted[s]) => Ended(s)' ]_vars

\* C4: once the subprocess of the current session has died without a
\* stop_entertainment call, the system eventually is cleanly stopped:
\* entertainment_active is False and the signal is "off".
C4_EndpointDeathStopsSession ==
    \A s \in Sessions :
        (entertainment_api = s /\ proc[s] \in {"exited", "reaped"} /\ ~interrupted[s])
            ~> (~entertainment_active /\ signal = "off")

\* C5: once stop() has been called on a session and its background task
\* has ended, no subprocess started by that session is alive.
C5_NoProcessLeftAfterStop ==
    \A s \in Sessions :
        (interrupted[s] /\ Ended(s)) => proc[s] # "alive"

\* C6: at most one endpoint subprocess exists and at most one read loop of
\* async_run is running at any time.
C6_OneEndpointOneLoop ==
    /\ Cardinality({s \in Sessions : proc[s] = "alive"}) <= 1
    /\ Cardinality({s \in Sessions : InLoop(s)}) <= 1

C8_SignalOffAfterStop ==
    \A s \in Sessions :
        (s = nSessions /\ offTask[s] = "done" /\ Ended(s)) => signal = "off"

\* C9: stop_entertainment called when the subprocess of the session has
\* already exited returns without an error, makes entertainment_active
\* False and issues the "off" write.
C9_StopOnDeadEndpoint ==
    [][ \A s \in Sessions :
            ( /\ stop_entertainment
              /\ entertainment_api = s
              /\ proc[s] \in {"exited", "reaped"} ) =>
                /\ lastCall'.ret = "None"
                /\ ~entertainment_active'
                /\ offTask'[s] = "pending" ]_vars

\* the positions of buf at which a start marker begins
MarkerAt(buf, i) ==
    i + Len(HueStream) - 1 <= Len(buf)
        /\ \A j \in 1..Len(HueStream) : buf[i + j - 1] = HueStream[j]

Markers(buf) == {i \in 1..Len(buf) : MarkerAt(buf, i)}

\* the position of the n-th marker of buf
NthMarker(buf, n) ==
    CHOOSE m \in Markers(buf) : Cardinality({x \in Markers(buf) : x < m}) = n - 1

\* the frames of buf that a further marker follows, each from its marker up
\* to the next one
CompleteFrames(buf) ==
    [n \in 1..(Cardinality(Markers(buf)) - 1) |->
        SubSeq(buf, NthMarker(buf, n), NthMarker(buf, n + 1) - 1)]

\* the rest of buf, from its last marker on
PartialFrame(buf) ==
    SubSeq(buf, NthMarker(buf, Cardinality(Markers(buf))), Len(buf))

\* a pass of the loop body of s over a buffer that begins with a marker is
\* over, and the next read is awaited
PassOverFrames(s) == pc[s] = "read" /\ MarkerAt(passInput[s], 1)

\* C10 (as stated): of a buffer of N frames followed by a partial frame of
\* L bytes, one pass gives exactly the N frames to __process_packet and
\* keeps exactly the L bytes of the partial frame.
C10_YieldsNFramesKeepsLBytes ==
    \A s \in Sessions :
        PassOverFrames(s) =>
            /\ delivered[s] = CompleteFrames(passInput[s])
            /\ buffer[s] = PartialFrame(passInput[s])

\* C10 (amended): of a buffer that begins with the marker and holds N frames
\* each followed by a further marker, then a partial frame of L >= 9 bytes
\* from the last marker on, one pass gives N + 1 packets to
\* __process_packet, the bare 9-byte marker first and then the N frames in
\* order, and keeps the L - 9 bytes that follow the last marker (cut to the
\* size limit of the buffer when the loop turns).
C10_YieldsMarkerThenFramesKeepsRest ==
    \A s \in Sessions :
        PassOverFrames(s) =>
            LET partial == PartialFrame(passInput[s]) IN
            /\ delivered[s] = <<HueStream>> \o CompleteFrames(passInput[s])
            /\ Len(partial) >= Len(HueStream)
            /\ buffer[s] = Trim(SubSeq(partial, Len(HueStream) + 1, Len(partial)),
                                (_max_pkt_size + _pkt_header_begin_size) * 2)

\* a pass over two complete frames and a partial one: three packets given,
\* the bytes after the third marker kept
C10_Witness ==
    \E s \in Sessions :
        /\ PassOverFrames(s)
        /\ Cardinality(Markers(passInput[s])) = 3
        /\ Len(delivered[s]) = 3
        /\ delivered[s][1] = HueStream
        /\ delivered[s][2] = Frame0
        /\ Len(buffer[s]) = 2

\* the number of bytes of buf that follow its last marker
TailLen(buf) ==
    Len(buf) - (NthMarker(buf, Cardinality(Markers(buf))) + Len(HueStream) - 1)

\* C11: after a pass of the loop body in which at least one packet was
\* split out, with F the length of the last one (marker included) and T the
\* length of the retained tail, _likely_pktsize is F - T if that is
\* positive and is unchanged otherwise.
C11_ReadSizeFollowsLastFrame ==
    [][ \A s \in Sessions :
            (AsyncRun(s) /\ pc'[s] = "read" /\ delivered'[s] # <<>>) =>
                LET F == Len(delivered'[s][Len(delivered'[s])])
                    T == TailLen(passInput'[s])
                IN  likely_pktsize'[s] =
                        IF F - T > 0 THEN F - T ELSE likely_pktsize[s] ]_vars

\* a pass has handed over a whole frame and set the read size to the
\* difference, which is not a size the session was started with
C11_Witness ==
    \E s \in Sessions :
        /\ pc[s] = "read"
        /\ Len(delivered[s]) >= 2
        /\ Len(delivered[s][Len(delivered[s])]) >= 16
        /\ likely_pktsize[s] =
              Len(delivered[s][Len(delivered[s])]) - TailLen(passInput[s])
        /\ \A n \in ReaderGroupSizes : likely_pktsize[s] # 16 + 9 * n

\* C12: whenever the loop has trimmed its buffer and waits for the next
\* read, the buffer holds at most 2 * (232 + 9) = 482 bytes.
C12_BufferBoundedAfterTrim ==
    \A s \in Sessions : pc[s] = "read" => Len(buffer[s]) <= 482

\* more than 482 bytes had gathered without a further marker, and the trim
\* has cut them to 482
C12_Witness ==
    \E s \in Sessions :
        /\ pc[s] = "read"
        /\ Len(passInput[s]) > 482
        /\ Len(buffer[s]) = 482

\* a stream of well-formed frames only: every datagram is one frame, from
\* its marker on, of at least the minimal header and at most 232 bytes
WellFormedFrames(datagrams) ==
    \A k \in 1..Len(datagrams) :
        /\ Markers(datagrams[k]) = {1}
        /\ Len(datagrams[k]) >= 16
        /\ Len(datagrams[k]) <= 232

\* what a pass over buf leaves for the next one when nothing is cut: the
\* bytes after the last marker, or all of buf when it holds no marker
Untrimmed(buf) ==
    IF Markers(buf) = {} THEN buf
    ELSE SubSeq(buf, Len(buf) - TailLen(buf) + 1, Len(buf))

\* C13: with a stream of well-formed frames of at most 232 bytes, whatever
\* the read sizes, the trim cuts nothing off: the buffer kept for the next
\* read is all that the pass left over, and every packet the decoder gets
\* is a whole frame of the stream (or the bare marker of the first pass).
C13_TrimKeepsUndispatchedFrames ==
    \A s \in Sessions :
        (WellFormedFrames(Datagrams) /\ pc[s] = "read" /\ passInput[s] # <<>>) =>
            /\ buffer[s] = Untrimmed(passInput[s])
            /\ \A i \in 1..Len(delivered[s]) :
                  \/ delivered[s][i] = HueStream
                  \/ \E k \in 1..Len(Datagrams) : delivered[s][i] = Datagrams[k]

\* a frame of the maximal size, read in several pieces, has reached the
\* decoder whole
C13_Witness ==
    \E s \in Sessions :
        /\ WellFormedFrames(Datagrams)
        /\ pc[s] = "read"
        /\ Len(delivered[s]) >= 1
        /\ delivered[s][Len(delivered[s])] = FrameMax
        /\ Len(delivered[s][Len(delivered[s])]) = 232

\* C14: a packet of less than 16 bytes given to __process_packet raises
\* nothing and has no channel task and no command, and the task of the
\* session is still in its read loop.
C14_ShortFrameDropped ==
    \A s \in Sessions : \A i \in 1..Len(delivered[s]) :
        Len(delivered[s][i]) < 16 =>
            /\ ~ProcessPacketRaises(delivered[s][i])
            /\ \A j \in 1..Len(gather[s]) : gather[s][j].frame # i
            /\ \A j \in 1..Len(executed[s]) : executed[s][j].frame # i
            /\ InLoop(s)

\* a frame of 12 bytes has been given to the decoder, and the loop waits
\* for the next read
C14_Witness ==
    \E s \in Sessions :
        /\ pc[s] = "read"
        /\ Len(delivered[s]) >= 1
        /\ delivered[s][Len(delivered[s])] = FrameShort

\* the light id of a channel record
ChannelId(light_data) == light_data[2] * 256 + light_data[3]

\* a frame of whole records of which exactly one has an id that is not in
\* the config, and at least one has an id that is
OneUnresolved(packet) ==
    LET c == Chunks(packet) IN
    /\ \A i \in 1..Len(c) : Len(c[i]) = 9
    /\ Cardinality({i \in 1..Len(c) : ChannelId(c[i]) \notin Lights}) = 1
    /\ Len(c) >= 2

\* C15: when the read loop has awaited a frame with one unresolved channel
\* id and k >= 1 resolving ones, the frame has not failed: the task of the
\* session has not ended with an exception.
C15_UnresolvedChannelSkipped ==
    [][ \A s \in Sessions :
            (pc[s] = "dispatch" /\ OneUnresolved(pkt[s]) /\ pc'[s] # "dispatch")
                => pc'[s] # "failed" ]_vars

\* C16: when the read loop has awaited a frame of which a channel dispatch
\* failed, it is still running (or has left by the interruption of stop).
C16_LoopSurvivesFailedChannel ==
    [][ \A s \in Sessions :
            (pc[s] = "dispatch" /\ ProcessPacketRaises(pkt[s]) /\ pc'[s] # "dispatch")
                => (InLoop(s)' \/ pc'[s] = "done") ]_vars

\* the number of bytes of the payload of a packet with a whole header
PayloadLen(packet) ==
    Len(packet) - (_pkt_header_begin_size + _pkt_header_protocol_size)
        - (IF packet[10] = 1 THEN 0 ELSE _pkt_header_uuid_size)

\* C17: the channel tasks of the frame the read loop is waiting for are
\* those of the floor(payload length / 9) whole records of its payload.
C17_WholeRecordsOnly ==
    \A s \in Sessions :
        pc[s] = "dispatch" =>
            \A i \in Head(gather[s]).pending : i <= PayloadLen(pkt[s]) \div 9

\* the channel record of an executed command
RecordOf(s, e) == Chunks(delivered[s][e.frame])[e.chunk]

\* the executed commands of a frame in a colour space
Executed(s, color_space) ==
    {j \in 1..Len(executed[s]) :
        ColorSpace(delivered[s][executed[s][j].frame]) = color_space}

\* C18: every command executed for a record of an RGB frame has as red,
\* green and blue the floor of (hi * 256 + lo) / 256 of the record's three
\* byte pairs, which is the high byte, each in 0..255, and as brightness
\* the floor of their average; the bytes (255, 0, 0, 0, 0, 128) give
\* 255, 0, 0 and brightness 85.
C18_RGBDecode ==
    \A s \in Sessions : \A j \in Executed(s, "RGB") :
        LET d == RecordOf(s, executed[s][j])
            c == executed[s][j].call
        IN  /\ c.color_mode = "rgb"
            /\ c.color = <<d[4], d[6], d[8]>>
            /\ \A n \in 1..3 : c.color[n] \in 0..255
            /\ 3 * c.brightness <= d[4] + d[6] + d[8]
            /\ d[4] + d[6] + d[8] < 3 * (c.brightness + 1)
            /\ SubSeq(d, 4, 9) = <<255, 0, 0, 0, 0, 128>>
                   => c.color = <<255, 0, 0>> /\ c.brightness = 85

\* the command of the record (255, 0, 0, 0, 0, 128) of an RGB frame has
\* been executed
C18_Witness ==
    \E s \in Sessions : \E j \in Executed(s, "RGB") :
        /\ SubSeq(RecordOf(s, executed[s][j]), 4, 9) = <<255, 0, 0, 0, 0, 128>>
        /\ executed[s][j].call.brightness = 85

\* C19: every command executed for a record of an XY frame has as x and y
\* the values b3 * 256 + b4 and b5 * 256 + b6 over 65535, each in [0, 1],
\* and as brightness the floor of (b7 * 256 + b8) / 256, in 0..255; the
\* bytes (128, 0, 64, 0, 0, 255) give 32768/65535, 16384/65535 and 0.
C19_XYDecode ==
    \A s \in Sessions : \A j \in Executed(s, "XY Brightness") :
        LET d == RecordOf(s, executed[s][j])
            c == executed[s][j].call
        IN  /\ c.color_mode = "xy"
            /\ c.color = <<d[4] * 256 + d[5], d[6] * 256 + d[7]>>
            /\ \A n \in 1..2 : c.color[n] \in 0..XYScale
            /\ 256 * c.brightness <= d[8] * 256 + d[9]
            /\ d[8] * 256 + d[9] < 256 * (c.brightness + 1)
            /\ c.brightness \in 0..255
            /\ SubSeq(d, 4, 9) = <<128, 0, 64, 0, 0, 255>>
                   => c.color = <<32768, 16384>> /\ c.brightness = 0

\* the command of the record (128, 0, 64, 0, 0, 255) of an XY frame has
\* been executed
C19_Witness ==
    \E s \in Sessions : \E j \in Executed(s, "XY Brightness") :
        /\ SubSeq(RecordOf(s, executed[s][j]), 4, 9) = <<128, 0, 64, 0, 0, 255>>
        /\ executed[s][j].call.color = <<32768, 16384>>
        /\ executed[s][j].call.brightness = 0

\* C20: no command of a frame has been executed while a channel task of
\* an earlier frame is unfinished, nor before a command of an earlier
\* frame; while the task of a session is in its loop, the only frame with
\* unfinished channel tasks is the last one given to the decoder, which
\* the loop is waiting for.
C20_FramesJoinedInOrder ==
    \A s \in Sessions :
        /\ \A j \in 1..Len(gather[s]) : \A e \in 1..Len(executed[s]) :
               executed[s][e].frame <= gather[s][j].frame
        /\ \A a, b \in 1..Len(executed[s]) :
               a < b => executed[s][a].frame <= executed[s][b].frame
        /\ Len(gather[s]) <= 1
        /\ InLoop(s) =>
               /\ pc[s] # "dispatch" => gather[s] = <<>>
               /\ \A j \in 1..Len(gather[s]) : gather[s][j].frame = Len(delivered[s])

\* the two channel tasks of a frame have completed the second first, and
\* then one of the next frame of the same pass, whose other is unfinished
C20_Witness ==
    \E s \in Sessions :
        /\ pc[s] = "dispatch"
        /\ Len(executed[s]) = 3
        /\ executed[s][1].frame = executed[s][2].frame
        /\ executed[s][1].chunk > executed[s][2].chunk
        /\ executed[s][3].frame > executed[s][2].frame
        /\ Len(gather[s]) = 1

\* C21: every command that has been executed has power_state true, a
\* transition of 0 ms with the throttle respected, a brightness in 0..255
\* and one colour representation: the RGB triple when byte 14 of its frame
\* is 0, the XY pair otherwise.
C21_CommandWellFormed ==
    \A s \in Sessions : \A j \in 1..Len(executed[s]) :
        LET c == executed[s][j].call
            rgb == delivered[s][executed[s][j].frame][15] = 0
        IN  /\ c.power_state = TRUE
            /\ c.transition_ms = 0
            /\ c.respect_throttle = TRUE
            /\ c.brightness \in 0..255
            /\ c.color_mode \in {"rgb", "xy"}
            /\ c.color_mode = "rgb" <=> rgb
            /\ Len(c.color) = IF rgb THEN 3 ELSE 2

\* commands of the brightest record have been executed, one of an RGB
\* frame or one of an XY frame
C21_Witness ==
    \E s \in Sessions : \E j \in 1..Len(executed[s]) :
        /\ SubSeq(RecordOf(s, executed[s][j]), 4, 9) = <<255, 255, 255, 255, 255, 255>>
        /\ executed[s][j].call.brightness = 255

\* the task of a session that has been stopped has not ended
StoppedRunning == \E s \in Sessions : interrupted[s] /\ ~Ended(s)

\* C22: once _interrupted is set, the task of the session issues no read
\* any more - it only enters read() from a state in which it is not
\* interrupted - and whenever the task of a stopped session has not ended,
\* eventually the task of every stopped session has.
C22_InterruptedLoopStops ==
    /\ [][ \A s \in Sessions :
              (interrupted[s] /\ pc'[s] \in {"read", "spin"})
                  => (pc[s] = pc'[s] /\ pos'[s] = pos[s] /\ buffer'[s] = buffer[s]) ]_vars
    /\ StoppedRunning ~> ~StoppedRunning

\* a session whose loop had adjusted its read size has been stopped, and
\* its task has ended
C22_Witness ==
    \E s \in Sessions :
        /\ interrupted[s]
        /\ pc[s] = "done"
        /\ socket_daemon[s]
        /\ likely_pktsize[s] \notin {16 + 9 * n : n \in ReaderGroupSizes}

\* the payload offset of a frame of version 1 or 2
PayloadOffset(packet) == IF packet[10] = 1 THEN 16 ELSE 52

\* the bytes of the n-th record of the payload of a frame
RecordAt(packet, n) ==
    SubSeq(packet, PayloadOffset(packet) + 9 * (n - 1) + 1, PayloadOffset(packet) + 9 * n)

\* C23: for a frame of version 1 or 2, every channel task the loop waits
\* for is that of a record that begins in the payload at offset 16
\* (version 1) or 52 (version 2), and every command executed while the
\* loop runs is that of such a record: its light id is b1 * 256 + b2 of the record, in
\* 0..65535, whatever byte 0 is, and its colour is the RGB decoding of the
\* record exactly when byte 14 of the frame is 0, the XY decoding otherwise.
C23_HeaderLayout ==
    \A s \in Sessions :
        /\ (pc[s] = "dispatch" /\ pkt[s][10] \in {1, 2}) =>
               \A i \in Head(gather[s]).pending :
                   PayloadOffset(pkt[s]) + 9 * (i - 1) < Len(pkt[s])
        /\ \A j \in 1..Len(executed[s]) :
               LET p == delivered[s][executed[s][j].frame]
                   rec == RecordAt(p, executed[s][j].chunk)
                   c == executed[s][j].call
               IN  (InLoop(s) /\ p[10] \in {1, 2}) =>
                       /\ c.light_id = rec[2] * 256 + rec[3]
                       /\ c.light_id \in 0..65535
                       /\ c.color_mode = "rgb" <=> p[15] = 0
                       /\ c.color = IF p[15] = 0 THEN <<rec[4], rec[6], rec[8]>>
                                    ELSE <<rec[4] * 256 + rec[5], rec[6] * 256 + rec[7]>>

\* the command of the first record of the version-2 XY frame, of type byte
\* 1 and id bytes 1, 2, has been executed for light 258
C23_Witness ==
    \E s \in Sessions : \E j \in 1..Len(executed[s]) :
        /\ InLoop(s)
        /\ delivered[s][executed[s][j].frame] = FrameV2
        /\ RecordAt(FrameV2, executed[s][j].chunk)[1] = 1
        /\ executed[s][j].call.light_id = 258
        /\ executed[s][j].call.color = <<32768, 16384>>

\* the task of s, waiting in read(), goes on with what read() returns
ReadStep(s) == pc[s] = "read" /\ (pos'[s] # pos[s] \/ pc'[s] # "read")

\* C24: when the buffer holds no marker after a read and the loop goes on,
\* no packet has been given to the decoder and none is awaited, the read
\* size is what it was, and the buffer is the one before the read with the
\* bytes read after it, whole - of which the next turn of the loop keeps
\* the last 482 bytes.
C24_NoMarkerKeepsBuffer ==
    [][ \A s \in Sessions :
            (ReadStep(s) /\ InLoop(s)' /\ Markers(passInput'[s]) = {}) =>
                LET whole == passInput'[s] IN
                /\ pc'[s] # "dispatch"
                /\ delivered'[s] = <<>>
                /\ gather'[s] = <<>>
                /\ likely_pktsize'[s] = likely_pktsize[s]
                /\ SubSeq(whole, 1, Len(buffer[s])) = buffer[s]
                /\ Len(whole) = Len(buffer[s]) + (pos'[s] - pos[s])
                /\ buffer'[s] = IF Len(whole) <= 482 THEN whole
                                ELSE SubSeq(whole, Len(whole) - 481, Len(whole)) ]_vars

\* a read has added bytes to a buffer without a marker, which is kept whole
C24_Witness ==
    \E s \in Sessions :
        /\ pc[s] = "read"
        /\ Markers(passInput[s]) = {}
        /\ Len(passInput[s]) > likely_pktsize[s]
        /\ buffer[s] = passInput[s]

\* C25: the read size of every session that has been created is a positive
\* integer.
C25_ReadSizePositive ==
    \A s \in Sessions :
        pc[s] # "none" => likely_pktsize[s] \in Nat \ {0}

\* the loop is about to read with a read size, set after a pass, that is
\* smaller than the minimal frame
C25_Witness ==
    \E s \in Sessions :
        /\ pc[s] = "read"
        /\ delivered[s] # <<>>
        /\ likely_pktsize[s] \in 1..15

\* C26: every packet given to the decoder in a pass is the marker and the
\* bytes of the buffer that precede a marker of the buffer - those before
\* its first marker, or between two of its markers: what follows the last
\* marker of the buffer has not been given.
C26_DispatchedBeforeNextMarker ==
    \A s \in Sessions :
        InLoop(s) =>
            \A i \in 1..Len(delivered[s]) :
                LET buf == passInput[s] IN
                /\ i <= Cardinality(Markers(buf))
                /\ delivered[s][i] =
                       HueStream \o SubSeq(buf,
                           IF i = 1 THEN 1 ELSE NthMarker(buf, i - 1) + Len(HueStream),
                           NthMarker(buf, i) - 1)

\* the whole stream has been read and its last frame, which has a channel
\* record, waits in the buffer: no command of it has been executed
C26_Witness ==
    \E s \in Sessions :
        LET last == Datagrams[Len(Datagrams)] IN
        /\ pc[s] = "read"
        /\ pos[s] = Len(Bytes(Datagrams, Len(Datagrams)))
        /\ Suspends(last)
        /\ buffer[s] = SubSeq(last, Len(HueStream) + 1, Len(last))
        /\ \A i \in 1..Len(delivered[s]) : delivered[s][i] # last
        /\ executed[s] = <<>>

\* ------------------------------------------------------------------------
\*  scheduler.py: the module-level map _schedules and the tasks it holds.
\*  A task is the coroutine of _scheduler_factory, which sleeps and calls
\*  func for ever: it ends when func raises or when it is cancelled.
\* ------------------------------------------------------------------------

NewTask == [raised |-> FALSE, cancel |-> FALSE]

\* task.cancel()
Cancel(task) == [task EXCEPT !.cancel = TRUE]

\* _schedules[id] = task
Put(d, id, task) ==
    [k \in DOMAIN d \cup {id} |-> IF k = id THEN task ELSE d[k]]

\* _schedules.pop(id, None), the map that is left
Pop(d, id) == [k \in DOMAIN d \ {id} |-> d[k]]

Max(S) == CHOOSE m \in S : \A k \in S : k <= m

next_id_by_count(d) == Cardinality(DOMAIN d) + 1

next_id(d) == IF DOMAIN d # {} THEN Max(DOMAIN d) + 1 ELSE 1

add_scheduler ==
    /\ Len(tasks) < MaxTasks
    /\ tasks' = Append(tasks, NewTask)
    /\ _schedules' = Put(_schedules, next_id(_schedules), Len(tasks) + 1)
    /\ UNCHANGED <<entertainment_api, nSessions, interrupted,
                   socket_daemon, likely_pktsize, pc, buffer, pkts, pkt,
                   proc, pos, signal, offTask, lastCall, stream, passInput,
                   delivered, gather, executed, _config, config_file,
                   _saver_task, saver_tasks, writes, stopState, lastChange,
                   _link_mode_enabled, timers, clock, enabledAt, groups,
                   reindexed>>

remove_scheduler(id) ==
    /\ IF id \in DOMAIN _schedules
       THEN /\ _schedules' = Pop(_schedules, id)
            /\ tasks' = [tasks EXCEPT ![_schedules[id]] = Cancel(@)]
       ELSE UNCHANGED <<_schedules, tasks>>
    /\ UNCHANGED <<entertainment_api, nSessions, interrupted,
                   socket_daemon, likely_pktsize, pc, buffer, pkts, pkt,
                   proc, pos, signal, offTask, lastCall, stream, passInput,
                   delivered, gather, executed, _config, config_file,
                   _saver_task, saver_tasks, writes, stopState, lastChange,
                   _link_mode_enabled, timers, clock, enabledAt, groups,
                   reindexed>>

remove_all_schedulers ==
    /\ tasks' = [t \in 1..Len(tasks) |->
                    IF \E id \in DOMAIN _schedules : _schedules[id] = t
                    THEN Cancel(tasks[t]) ELSE tasks[t]]
    /\ _schedules' = [id \in {} |-> 0]
    /\ UNCHANGED <<entertainment_api, nSessions, interrupted,
                   socket_daemon, likely_pktsize, pc, buffer, pkts, pkt,
                   proc, pos, signal, offTask, lastCall, stream, passInput,
                   delivered, gather, executed, _config, config_file,
                   _saver_task, saver_tasks, writes, stopState, lastChange,
                   _link_mode_enabled, timers, clock, enabledAt, groups,
                   reindexed>>

\* func raises inside scheduler_func: the task ends and stays in the map
FuncRaises(t) ==
    /\ ~tasks[t].raised /\ ~tasks[t].cancel
    /\ tasks' = [tasks EXCEPT ![t].raised = TRUE]
    /\ UNCHANGED <<entertainment_api, nSessions, interrupted,
                   socket_daemon, likely_pktsize, pc, buffer, pkts, pkt,
                   proc, pos, signal, offTask, lastCall, stream, passInput,
                   delivered, gather, executed, _schedules, _config,
                   config_file, _saver_task, saver_tasks, writes,
                   stopState, lastChange, _link_mode_enabled, timers,
                   clock, enabledAt, groups, reindexed>>

SchedNext ==
    \/ add_scheduler
    \/ \E id \in 1..(MaxTasks + 1) : remove_scheduler(id)
    \/ remove_all_schedulers
    \/ \E t \in 1..Len(tasks) : FuncRaises(t)

SchedSpec == InitWith({1}) /\ [][SchedNext]_vars

IdsOf(t) == {id \in DOMAIN _schedules : _schedules[id] = t}

\* C27: every task add_scheduler created is in _schedules under exactly one
\* id or has been cancelled, and the id add_scheduler gives a new task is
\* one that no task is registered under when it is called.
C27_TaskRegisteredOrCancelled ==
    /\ [](\A t \in 1..Len(tasks) :
             tasks[t].cancel \/ Cardinality(IdsOf(t)) = 1)
    /\ [][ Len(tasks') = Len(tasks) + 1 =>
             \E id \in DOMAIN _schedules' \ DOMAIN _schedules :
                 /\ _schedules'[id] = Len(tasks')
                 /\ \A k \in DOMAIN _schedules : _schedules'[k] = _schedules[k] ]_vars

\* an id is given again after its removal, while an older task is still
\* registered and running under a smaller id
C27_Witness ==
    \E t, u, w \in 1..Len(tasks) :
        /\ t < u /\ u < w
        /\ tasks[u].cancel /\ IdsOf(u) = {}
        /\ ~tasks[t].cancel /\ ~tasks[t].raised
        /\ \E id \in IdsOf(w) : id <= u /\ ~tasks[w].cancel

\* ------------------------------------------------------------------------
\*  config.py: the storage operations, the saver task and async_stop.
\*  async_save_json(path, data) hands the writing to a thread: the thread
\*  serialises `data` at some moment after the call and replaces the file
\*  by what it serialised; the call returns when the file is written.
\* ------------------------------------------------------------------------

\* self._saver_task.done()
Done(task) == saver_tasks[task] \in {"done", "cancelled"}

Pending == {i \in 1..Len(saver_tasks) : ~Done(i)}

\* (mutant) the test of _saver_task is missing
create_save_task_unguarded ==
    /\ Len(saver_tasks) < MaxSaves
    /\ saver_tasks' = Append(saver_tasks, "sleeping")
    /\ _saver_task' = Len(saver_tasks) + 1

create_save_task ==
    IF _saver_task = None \/ Done(_saver_task)
    THEN /\ Len(saver_tasks) < MaxSaves
         /\ saver_tasks' = Append(saver_tasks, "sleeping")
         /\ _saver_task' = Len(saver_tasks) + 1
    ELSE UNCHANGED <<saver_tasks, _saver_task>>

\* async_set_storage_value(key, subkey, value) with a value that is not the
\* stored object
async_set_storage_value(value) ==
    /\ IF _config # value
       THEN /\ _config' = value
            /\ lastChange' = IF _saver_task = None \/ Done(_saver_task)
                             THEN "set" ELSE "set_pending"
            /\ create_save_task
       ELSE UNCHANGED <<_config, lastChange, saver_tasks, _saver_task>>
    /\ UNCHANGED <<entertainment_api, nSessions, interrupted,
                   socket_daemon, likely_pktsize, pc, buffer, pkts, pkt,
                   proc, pos, signal, offTask, lastCall, stream, passInput,
                   delivered, gather, executed, _schedules, tasks,
                   config_file, writes, stopState, _link_mode_enabled,
                   timers, clock, enabledAt, groups, reindexed>>

\* async_get_user(username): the stored dict gets its "last use date" and
\* is then passed to async_set_storage_value, which compares it with itself
async_get_user(now) ==
    /\ _config # Absent
    /\ _config' = now
    /\ lastChange' = IF now # _config THEN "access" ELSE lastChange
    /\ UNCHANGED <<entertainment_api, nSessions, interrupted,
                   socket_daemon, likely_pktsize, pc, buffer, pkts, pkt,
                   proc, pos, signal, offTask, lastCall, stream, passInput,
                   delivered, gather, executed, _schedules, tasks,
                   config_file, _saver_task, saver_tasks, writes,
                   stopState, _link_mode_enabled, timers, clock, enabledAt,
                   groups, reindexed>>

\* async_delete_storage_value("users", username): pop, then the file is
\* written by the caller
async_delete_storage_value ==
    /\ \A w \in writes : w.kind # "delete"
    /\ _config' = Absent
    /\ lastChange' = IF _config # Absent THEN "delete" ELSE lastChange
    /\ writes' = writes \cup {Write("delete", None)}
    /\ UNCHANGED <<entertainment_api, nSessions, interrupted,
                   socket_daemon, likely_pktsize, pc, buffer, pkts, pkt,
                   proc, pos, signal, offTask, lastCall, stream, passInput,
                   delivered, gather, executed, _schedules, tasks,
                   config_file, _saver_task, saver_tasks, stopState,
                   _link_mode_enabled, timers, clock, enabledAt, groups,
                   reindexed>>

\* _commit_config(): the sleep of the saver task is over
SaverWake(task) ==
    /\ saver_tasks[task] = "sleeping"
    /\ saver_tasks' = [saver_tasks EXCEPT ![task] = "writing"]
    /\ writes' = writes \cup {Write("saver", task)}
    /\ UNCHANGED <<entertainment_api, nSessions, interrupted,
                   socket_daemon, likely_pktsize, pc, buffer, pkts, pkt,
                   proc, pos, signal, offTask, lastCall, stream, passInput,
                   delivered, gather, executed, _schedules, tasks, _config,
                   config_file, _saver_task, stopState, lastChange,
                   _link_mode_enabled, timers, clock, enabledAt, groups,
                   reindexed>>

\* the thread of a write serialises the data
Serialize(w) ==
    /\ w.snap = Unset
    /\ writes' = (writes \ {w}) \cup {[w EXCEPT !.snap = _config]}
    /\ UNCHANGED <<entertainment_api, nSessions, interrupted,
                   socket_daemon, likely_pktsize, pc, buffer, pkts, pkt,
                   proc, pos, signal, offTask, lastCall, stream, passInput,
                   delivered, gather, executed, _schedules, tasks, _config,
                   config_file, _saver_task, saver_tasks, stopState,
                   lastChange, _link_mode_enabled, timers, clock,
                   enabledAt, groups, reindexed>>

\* the thread of a write has replaced the file: async_save_json returns
Complete(w) ==
    /\ w.snap # Unset
    /\ config_file' = w.snap
    /\ writes' = writes \ {w}
    /\ saver_tasks' = IF w.kind = "saver" /\ saver_tasks[w.task] = "writing"
                      THEN [saver_tasks EXCEPT ![w.task] = "done"]
                      ELSE saver_tasks
    /\ stopState' = IF w.kind = "stop" THEN "done" ELSE stopState
    /\ UNCHANGED <<entertainment_api, nSessions, interrupted,
                   socket_daemon, likely_pktsize, pc, buffer, pkts, pkt,
                   proc, pos, signal, offTask, lastCall, stream, passInput,
                   delivered, gather, executed, _schedules, tasks, _config,
                   _saver_task, lastChange, _link_mode_enabled, timers,
                   clock, enabledAt, groups, reindexed>>

\* what _saver_task.cancel() leaves of the writes: the write of a cancelled
\* task goes on when its thread has started, and is dropped when it has not
AfterCancel(task, started) ==
    IF started THEN writes
    ELSE {w \in writes : ~(w.kind = "saver" /\ w.task = task /\ w.snap = Unset)}

\* Config.async_stop(), up to its first suspension
async_stop ==
    /\ stopState = "idle"
    /\ stop_entertainment_call
    /\ IF lastCall'.ret # "None"
       THEN /\ stopState' = "raised"
            /\ UNCHANGED <<saver_tasks, writes>>
       ELSE IF _saver_task # None /\ ~Done(_saver_task)
            THEN /\ saver_tasks' = [saver_tasks EXCEPT ![_saver_task] = "cancelled"]
                 /\ \E started \in BOOLEAN :
                        writes' = AfterCancel(_saver_task, started) \cup {Write("stop", None)}
                 /\ stopState' = "saving"
            ELSE /\ stopState' = "done"
                 /\ UNCHANGED <<saver_tasks, writes>>
    /\ UNCHANGED <<nSessions, socket_daemon, likely_pktsize, pc, buffer,
                   pkts, pkt, pos, signal, stream, passInput, delivered,
                   gather, executed, _schedules, tasks, _config,
                   config_file, _saver_task, lastChange,
                   _link_mode_enabled, timers, clock, enabledAt, groups,
                   reindexed>>

SaverNext ==
    \/ \E value \in Values : async_set_storage_value(value)
    \/ \E now \in Values : async_get_user(now)
    \/ async_delete_storage_value
    \/ \E task \in 1..Len(saver_tasks) : SaverWake(task)
    \/ \E w \in writes : Serialize(w)
    \/ \E w \in writes : Complete(w)
    \/ async_stop

SaverSpec == InitWith({1}) /\ [][SaverNext]_vars

\* C28: at most one task created by create_save_task is not done, and a
\* task is created only when _saver_task is None or done.
C28_OneSaverPending ==
    /\ [](Cardinality(Pending) <= 1)
    /\ [][ Len(saver_tasks') > Len(saver_tasks) =>
             (_saver_task = None \/ Done(_saver_task)) ]_vars

\* a second change made while the saver task sleeps: still one task exists
C28_Witness ==
    /\ saver_tasks = <<"sleeping">>
    /\ lastChange = "set_pending"
    /\ _config = Loaded /\ config_file = Loaded

\* the event loop runs every task that can run, and the threads of the
\* writes run to their end
FairSaverSpec ==
    /\ SaverSpec
    /\ WF_vars(\E task \in 1..Len(saver_tasks) : SaverWake(task))
    /\ WF_vars(\E w \in writes : Serialize(w))
    /\ WF_vars(\E w \in writes : Complete(w))

\* the last change of the storage was made by async_set_storage_value and
\* the file does not hold it
Unsaved == lastChange \in {"set", "set_pending"} /\ config_file # _config

\* C29: a change made through async_set_storage_value reaches the file
\* unless a further change follows it.
C29_ChangeEventuallyWritten == Unsaved ~> ~Unsaved

\* C30: when async_stop returns, the file holds the content of the storage
\* in memory, whatever operations preceded the call and whatever the saver
\* task was doing.
C30_StopSavesConfig ==
    [][ (stopState # "done" /\ stopState' = "done") =>
            config_file' = _config' ]_vars

\* ------------------------------------------------------------------------
\*  The stored item followed is a light of the "lights" section: its content
\*  is the entry with "enabled" True as async_entity_id_to_light_id creates
\*  it, or the same entry with "enabled" False.
\* ------------------------------------------------------------------------
LightEnabled == 1
LightDisabled == 2

\* async_delete_storage_value("lights", light_id): async_get_light_config
\* raises when there is no such light; otherwise the dict it returns, which
\* is the stored one, gets "enabled" False and is passed to
\* async_set_storage_value, which compares it with itself
async_delete_storage_value_lights ==
    /\ IF _config = Absent
       THEN UNCHANGED <<_config, lastChange>>
       ELSE /\ _config' = LightDisabled
            /\ lastChange' = IF _config # LightDisabled THEN "delete_light" ELSE lastChange
    /\ UNCHANGED <<entertainment_api, nSessions, interrupted,
                   socket_daemon, likely_pktsize, pc, buffer, pkts, pkt,
                   proc, pos, signal, offTask, lastCall, stream, passInput,
                   delivered, gather, executed, _schedules, tasks,
                   config_file, _saver_task, saver_tasks, writes,
                   stopState, _link_mode_enabled, timers, clock, enabledAt,
                   groups, reindexed>>

LightNext ==
    \/ \E value \in Values : async_set_storage_value(value)
    \/ async_delete_storage_value_lights
    \/ \E task \in 1..Len(saver_tasks) : SaverWake(task)
    \/ \E w \in writes : Serialize(w)
    \/ \E w \in writes : Complete(w)

LightSpec == InitWith({1}) /\ [][LightNext]_vars

\* the content of the storage is in the file, or something is under way
\* that will write it: a saver task, or a write that has not serialised yet
HandedToPersistence ==
    \/ Pending # {}
    \/ \E w \in writes : w.snap \in {Unset, _config}
    \/ config_file = _config

\* C31: async_delete_storage_value("lights", id) on an enabled light leaves
\* the entry in the storage with "enabled" False, and when the call returns
\* that change is saved or on its way to the file.
C31_LightDeleteIsPersisted ==
    [][ (_config \notin {Absent, LightDisabled} /\ lastChange' = "delete_light") =>
            (_config' = LightDisabled /\ HandedToPersistence') ]_vars

\* ------------------------------------------------------------------------
\*  config.py: link mode.  The clock counts ticks of 100 seconds; a timer
\*  set by call_later runs its callback when its time has come, before the
\*  clock goes on.  auto_disable creates the task of
\*  async_disable_link_mode(), which is taken together with the callback.
\* ------------------------------------------------------------------------

\* the delay of call_later(300, auto_disable), in ticks
LinkModeTicks == 3

async_enable_link_mode ==
    /\ IF _link_mode_enabled
       THEN UNCHANGED <<_link_mode_enabled, timers, enabledAt>>
       ELSE /\ _link_mode_enabled' = TRUE
            /\ timers' = timers \cup {clock + LinkModeTicks}
            /\ enabledAt' = clock
    /\ UNCHANGED <<entertainment_api, nSessions, interrupted,
                   socket_daemon, likely_pktsize, pc, buffer, pkts, pkt,
                   proc, pos, signal, offTask, lastCall, stream, passInput,
                   delivered, gather, executed, _schedules, tasks, _config,
                   config_file, _saver_task, saver_tasks, writes,
                   stopState, lastChange, clock, groups, reindexed>>

async_disable_link_mode ==
    /\ _link_mode_enabled' = FALSE
    /\ UNCHANGED <<entertainment_api, nSessions, interrupted,
                   socket_daemon, likely_pktsize, pc, buffer, pkts, pkt,
                   proc, pos, signal, offTask, lastCall, stream, passInput,
                   delivered, gather, executed, _schedules, tasks, _config,
                   config_file, _saver_task, saver_tasks, writes,
                   stopState, lastChange, timers, clock, enabledAt, groups,
                   reindexed>>

\* a timer is due: auto_disable()
auto_disable(due) ==
    /\ due <= clock
    /\ timers' = timers \ {due}
    /\ _link_mode_enabled' = FALSE
    /\ UNCHANGED <<entertainment_api, nSessions, interrupted,
                   socket_daemon, likely_pktsize, pc, buffer, pkts, pkt,
                   proc, pos, signal, offTask, lastCall, stream, passInput,
                   delivered, gather, executed, _schedules, tasks, _config,
                   config_file, _saver_task, saver_tasks, writes,
                   stopState, lastChange, clock, enabledAt, groups,
                   reindexed>>

Tick ==
    /\ clock < MaxTicks
    /\ \A due \in timers : due > clock
    /\ clock' = clock + 1
    /\ UNCHANGED <<entertainment_api, nSessions, interrupted,
                   socket_daemon, likely_pktsize, pc, buffer, pkts, pkt,
                   proc, pos, signal, offTask, lastCall, stream, passInput,
                   delivered, gather, executed, _schedules, tasks, _config,
                   config_file, _saver_task, saver_tasks, writes,
                   stopState, lastChange, _link_mode_enabled, timers,
                   enabledAt, groups, reindexed>>

LinkNext ==
    \/ async_enable_link_mode
    \/ async_disable_link_mode
    \/ \E due \in timers : auto_disable(due)
    \/ Tick

LinkSpec == InitWith({1}) /\ [][LinkNext]_vars

\* C32: link mode switched on by async_enable_link_mode is not switched off
\* by a timer before 300 seconds have passed since that call, whatever
\* timers earlier calls have left.
C32_LinkModeLastsFiveMinutes ==
    [][ (_link_mode_enabled /\ ~_link_mode_enabled' /\ timers' # timers) =>
            clock >= enabledAt + LinkModeTicks ]_vars

\* ------------------------------------------------------------------------
\*  config.py: step 5 of _prune_and_reindex, the re-indexing of the groups.
\* ------------------------------------------------------------------------

\* str(n)
Digits(n) == IF n < 10 THEN <<n>> ELSE <<n \div 10, n % 10>>

\* a < b for two strings of digits
StrLess(a, b) ==
    LET x == Digits(a)
        y == Digits(b)
    IN  \/ x[1] < y[1]
        \/ x[1] = y[1] /\ Len(x) < Len(y)
        \/ x[1] = y[1] /\ Len(x) = 2 /\ Len(y) = 2 /\ x[2] < y[2]

\* sorted(d): the keys of a dict in the order of their strings
sorted(d) ==
    [i \in 1..Cardinality(DOMAIN d) |->
        CHOOSE k \in DOMAIN d :
            Cardinality({j \in DOMAIN d : StrLess(j, k)}) = i - 1]

\* new_gid of the group that enumerate(sorted(...), start=1) gives as
\* number new_index
new_gid(d, new_index) ==
    IF d[sorted(d)[new_index]].area_id THEN sorted(d)[new_index] ELSE new_index

\* new_groups_dict when the loop is over: an assignment to a key that is
\* already there replaces the config assigned before
new_groups_dict(d) ==
    LET indexes == 1..Cardinality(DOMAIN d) IN
    [gid \in {new_gid(d, i) : i \in indexes} |->
        d[sorted(d)[Max({i \in indexes : new_gid(d, i) = gid})]]]

ReindexGroups ==
    /\ ~reindexed
    /\ groups' = new_groups_dict(groups)
    /\ reindexed' = TRUE
    /\ UNCHANGED <<entertainment_api, nSessions, interrupted,
                   socket_daemon, likely_pktsize, pc, buffer, pkts, pkt,
                   proc, pos, signal, offTask, lastCall, stream, passInput,
                   delivered, gather, executed, _schedules, tasks, _config,
                   config_file, _saver_task, saver_tasks, writes,
                   stopState, lastChange, _link_mode_enabled, timers,
                   clock, enabledAt>>

ReindexNext == ReindexGroups

ReindexSpec == ReindexInit /\ [][ReindexNext]_vars

\* C33: the re-indexing gives the groups pairwise distinct ids: every group
\* config is in the new section and the number of groups is unchanged.
C33_ReindexLosesNoGroup ==
    [][ (~reindexed /\ reindexed') =>
            /\ Cardinality(DOMAIN groups') = Cardinality(DOMAIN groups)
            /\ \A old \in DOMAIN groups :
                   \E gid \in DOMAIN groups' : groups'[gid] = groups[old] ]_vars

====
